---- MODULE Spec2Model ----
(***************************************************************************)
(* Password-reset backend (app/routers/auth.py, app/utils.py,              *)
(* app/models.py, app/services/email_service.py).                          *)
(*                                                                         *)
(* The committed database is the pair (users, tokens).  Every request      *)
(* handler runs in its own SQLAlchemy session: queries read the committed  *)
(* rows (READ COMMITTED), attribute writes stay in the session until       *)
(* db.commit() flushes them in one transaction, and the bulk UPDATE of     *)
(* forgot_password holds its row locks until that handler commits.  One    *)
(* action is one database statement of a handler together with the local   *)
(* code around it; queries of rows that no handler deletes or re-keys      *)
(* (a user by email or id) are taken together with the statement next to   *)
(* them.  resp and mail hold what the step just taken returned or sent.    *)
(***************************************************************************)
EXTENDS Integers, Sequences, FiniteSets, TLC

\* ---------------------------------------------------------------- bounds
MaxRequests == 4       \* requests the handlers accept in one run

MaxTime == 60          \* the clock stops here (minutes)

\* one registration comes first, so at most this many tokens are ever issued
MaxTokens == MaxRequests - 1

\* ------------------------------------------------------ program constants
TOKEN_EXPIRATION_MINUTES == 30

Procs == {"h1", "h2"}              \* request handlers that run in parallel
Emails == {"a@x", "b@x"}
Passwords == {"password123", "newpass123"}
Salts == {"s1"}
TokenInputs == 0..MaxTokens        \* 0 is a value no token ever has
Quantum == TOKEN_EXPIRATION_MINUTES     \* the clock advances by this much
Null == 0 - 1                      \* SQL NULL in used_at

VARIABLES
    now,        \* datetime.utcnow(), in minutes
    users,      \* table users: row id = index
    tokens,     \* table password_reset_tokens: row id = index
    pc,         \* per handler: the statement it is about to run
    req,        \* per handler: the request body
    sess,       \* per handler: what its session has loaded, matched or locked
    resp,       \* the HTTP response of the step just taken, NoResp when it returned none
    mail,       \* the reset link the step just taken handed to the email sender
    pwBy,       \* per token row: committed password overwrites by resets carrying it
    useBy,      \* per token row: committed used_at writes by resets carrying it
    served      \* requests accepted so far

vars == <<now, users, tokens, pc, req, sess, resp, mail, pwBy, useBy, served>>

\* ----------------------------------------------------------------- utils
\* bcrypt: the hash embeds the salt and a digest of salt and password
hash_password(password, salt) == [salt |-> salt, digest |-> <<salt, password>>]

verify_password(plain_password, hashed_password) ==
    hashed_password.digest = <<hashed_password.salt, plain_password>>

\* uuid4 + token_urlsafe(32): a value no stored token has
generate_reset_token == Len(tokens) + 1

get_token_expiration == now + TOKEN_EXPIRATION_MINUTES

\* mutant: the comparison is turned round
is_token_expired_Reversed(expires_at) == now < expires_at

\* mutant: the token already counts as expired at the instant it expires
is_token_expired_AtExpiry(expires_at) == now >= expires_at

is_token_expired(expires_at) == now > expires_at

\* --------------------------------------------------------------- queries
\* db.query(User).filter(User.email == email).first(): row id, 0 for None
UserByEmail(email) ==
    IF \E u \in 1..Len(users) : users[u].email = email
    THEN CHOOSE u \in 1..Len(users) : users[u].email = email
    ELSE 0

\* db.query(User).filter(User.id == id).first()
UserById(id) == IF id \in 1..Len(users) THEN id ELSE 0

\* db.query(PasswordResetToken).filter(PasswordResetToken.token == t).first()
TokenByValue(t) ==
    IF \E i \in 1..Len(tokens) : tokens[i].token = t
    THEN CHOOSE i \in 1..Len(tokens) : tokens[i].token = t
    ELSE 0

\* the rows of user u with used_at NULL
UnusedOf(u) == {i \in 1..Len(tokens) : tokens[i].user_id = u /\ tokens[i].used_at = Null}

\* rows another handler's uncommitted bulk UPDATE holds locked
LockedByOthers(p) ==
    UNION {sess[q].rows : q \in {r \in Procs \ {p} : pc[r] = "forgot_insert"}}

\* ------------------------------------------------------------- responses
NoResp == [op |-> "none", status |-> 0, message |-> "", valid |-> FALSE, email |-> ""]

Response(op, status, message) ==
    [op |-> op, status |-> status, message |-> message, valid |-> FALSE, email |-> ""]

NoMail == [to |-> "", token |-> 0]
NoReq == [email |-> "", password |-> "", token |-> 0]
\* seen: how many token rows were committed when the request came in
NoSess == [user |-> 0, tok |-> 0, rows |-> {}, stamp |-> 0, delivery |-> "none", seen |-> 0]

MsgAccepted == "If the email exists, a password reset link has been sent"
MsgNotFound == "Invalid or expired token"
MsgUsed == "This reset link has already been used"
MsgExpired == "This reset link has expired"
MsgValid == "Token is valid"
MsgReset == "Password has been reset successfully"
MsgBadLogin == "Invalid email or password"
MsgInactive == "Account is inactive"
MsgServerError == "Internal Server Error"
MsgNoUser == "User not found"
MsgLogin == "Login successful"
MsgDuplicate == "Email already registered"

Init ==
    /\ now = 0
    /\ users = <<>>
    /\ tokens = <<>>
    /\ pc = [p \in Procs |-> "idle"]
    /\ req = [p \in Procs |-> NoReq]
    /\ sess = [p \in Procs |-> NoSess]
    /\ resp = NoResp
    /\ mail = NoMail
    /\ pwBy = [i \in 1..MaxTokens |-> 0]
    /\ useBy = [i \in 1..MaxTokens |-> 0]
    /\ served = 0

\* the handler returns (or raises HTTPException): session closed
Return(p, r) ==
    /\ pc' = [pc EXCEPT ![p] = "idle"]
    /\ req' = [req EXCEPT ![p] = NoReq]
    /\ sess' = [sess EXCEPT ![p] = NoSess]
    /\ resp' = r
    /\ mail' = NoMail

\* the handler goes on to its next statement
Goto(p, label, r, s) ==
    /\ pc' = [pc EXCEPT ![p] = label]
    /\ req' = [req EXCEPT ![p] = r]
    /\ sess' = [sess EXCEPT ![p] = s]
    /\ resp' = NoResp
    /\ mail' = NoMail

\* an idle handler accepts the next request
Admit(p) ==
    /\ pc[p] = "idle"
    /\ served < MaxRequests
    /\ served' = served + 1

\* -------------------------------------------------------------- register
\* mutant: no query for an existing user before the insert
RegisterCheck_NoQuery(p, email, password) ==
    /\ Admit(p)
    /\ Goto(p, "register_insert",
            [NoReq EXCEPT !.email = email, !.password = password], NoSess)
    /\ UNCHANGED <<now, users, tokens, pwBy, useBy>>

RegisterCheck(p, email, password) ==
    /\ Admit(p)
    /\ IF UserByEmail(email) # 0
       THEN Return(p, Response("register", 400, MsgDuplicate))
       ELSE Goto(p, "register_insert",
                 [NoReq EXCEPT !.email = email, !.password = password], NoSess)
    /\ UNCHANGED <<now, users, tokens, pwBy, useBy>>

\* mutant: users.email has no unique index
RegisterInsert_NoUnique(p, salt) ==
    /\ pc[p] = "register_insert"
    /\ users' = Append(users,
          [email |-> req[p].email,
           hashed_password |-> hash_password(req[p].password, salt),
           is_active |-> TRUE])
    /\ Return(p, [Response("register", 201, "") EXCEPT !.email = req[p].email])
    /\ UNCHANGED <<now, tokens, pwBy, useBy, served>>

\* db.add(new_user); db.commit(): users.email is unique (models.py)
RegisterInsert(p, salt) ==
    /\ pc[p] = "register_insert"
    /\ IF UserByEmail(req[p].email) # 0
       THEN /\ Return(p, Response("register", 500, MsgServerError))
            /\ UNCHANGED users
       ELSE /\ users' = Append(users,
                   [email |-> req[p].email,
                    hashed_password |-> hash_password(req[p].password, salt),
                    is_active |-> TRUE])
            /\ Return(p, [Response("register", 201, "") EXCEPT !.email = req[p].email])
    /\ UNCHANGED <<now, tokens, pwBy, useBy, served>>

\* ----------------------------------------------------------------- login
\* mutant: is_active is tested before the password
Login_ActiveFirst(p, email, password) ==
    /\ Admit(p)
    /\ LET user == UserByEmail(email) IN
       IF user = 0
       THEN Return(p, Response("login", 401, MsgBadLogin))
       ELSE IF ~users[user].is_active
       THEN Return(p, Response("login", 403, MsgInactive))
       ELSE IF ~verify_password(password, users[user].hashed_password)
       THEN Return(p, Response("login", 401, MsgBadLogin))
       ELSE Return(p, [Response("login", 200, MsgLogin) EXCEPT !.email = email])
    /\ UNCHANGED <<now, users, tokens, pwBy, useBy>>

\* the response of login on the committed rows
LoginResult(email, password) ==
    LET user == UserByEmail(email) IN
    IF user = 0
    THEN Response("login", 401, MsgBadLogin)
    ELSE IF ~verify_password(password, users[user].hashed_password)
    THEN Response("login", 401, MsgBadLogin)
    ELSE IF ~users[user].is_active
    THEN Response("login", 403, MsgInactive)
    ELSE [Response("login", 200, MsgLogin) EXCEPT !.email = email]

\* one query and no write
Login(p, email, password) ==
    /\ Admit(p)
    /\ Return(p, LoginResult(email, password))
    /\ UNCHANGED <<now, users, tokens, pwBy, useBy>>

\* ------------------------------------------------------- forgot-password
\* mutant: an unknown email is reported to the caller
ForgotNoUser_NotFound == Response("forgot", 404, "User not found")

\* if not user: return {"message": ...}
ForgotNoUser == Response("forgot", 200, MsgAccepted)

\* mutant: the filter keeps the used rows instead of the unused ones
InvalidateMatch_UsedRows(user) ==
    {i \in 1..Len(tokens) : tokens[i].user_id = user /\ tokens[i].used_at # Null}

\* the rows of filter(user_id == user.id, used_at.is_(None))
InvalidateMatch(user) ==
    {i \in 1..Len(tokens) : tokens[i].user_id = user /\ tokens[i].used_at = Null}

\* user = db.query(User)...first(); if not user: return accepted;
\* query(...).filter(user_id == user.id, used_at IS NULL).update({used_at: utcnow()}):
\* the UPDATE matches the committed unused rows of the user; it locks them until
\* commit, or waits when another transaction holds one of them
ForgotInvalidate(p, email) ==
    /\ Admit(p)
    /\ LET user == UserByEmail(email)
           match == InvalidateMatch(user)
       IN
       IF user = 0
       THEN Return(p, ForgotNoUser)
       ELSE Goto(p, IF match \cap LockedByOthers(p) = {}
                    THEN "forgot_insert" ELSE "forgot_blocked",
                 NoReq,
                 [NoSess EXCEPT !.user = user, !.rows = match, !.stamp = now,
                                !.seen = Len(tokens)])
    /\ UNCHANGED <<now, users, tokens, pwBy, useBy>>

\* the lock holder has ended: the waiting UPDATE goes on with the rows of its
\* snapshot that still satisfy used_at IS NULL
ForgotUnblock(p) ==
    /\ pc[p] = "forgot_blocked"
    /\ sess[p].rows \cap LockedByOthers(p) = {}
    /\ Goto(p, "forgot_insert", req[p],
            [sess[p] EXCEPT !.rows = {i \in sess[p].rows : tokens[i].used_at = Null}])
    /\ UNCHANGED <<now, users, tokens, pwBy, useBy, served>>

\* mutant: the new token is committed without the invalidating UPDATE
ForgotInsert_InsertOnly(p) ==
    /\ pc[p] = "forgot_insert"
    /\ tokens' = Append(tokens,
          [user_id |-> sess[p].user, token |-> generate_reset_token,
           expires_at |-> get_token_expiration, used_at |-> Null])
    /\ Goto(p, "forgot_send", req[p],
            [sess[p] EXCEPT !.rows = {}, !.stamp = 0, !.seen = 0, !.tok = Len(tokens) + 1])
    /\ UNCHANGED <<now, users, pwBy, useBy, served>>

\* token = generate_reset_token(); expires_at = get_token_expiration();
\* db.add(reset_token); db.commit()
ForgotInsert(p) ==
    /\ pc[p] = "forgot_insert"
    /\ tokens' = Append(
          [i \in 1..Len(tokens) |->
              IF i \in sess[p].rows THEN [tokens[i] EXCEPT !.used_at = sess[p].stamp]
                                    ELSE tokens[i]],
          [user_id |-> sess[p].user, token |-> generate_reset_token,
           expires_at |-> get_token_expiration, used_at |-> Null])
    /\ Goto(p, "forgot_send", req[p],
            [sess[p] EXCEPT !.rows = {}, !.stamp = 0, !.seen = 0, !.tok = Len(tokens) + 1])
    /\ UNCHANGED <<now, users, pwBy, useBy, served>>

\* send_email: True when sent (or mocked), False when the API raised;
\* "raise" is an exception leaving send_password_reset_email itself
EmailOutcomes == {"sent", "false", "raise"}

\* mutant: no try/except round the send, an exception reaches the caller
ForgotSend_Propagates(p, outcome) ==
    /\ pc[p] = "forgot_send"
    /\ mail' = [to |-> users[sess[p].user].email, token |-> tokens[sess[p].tok].token]
    /\ pc' = [pc EXCEPT ![p] = IF outcome = "raise" THEN "idle" ELSE "forgot_return"]
    /\ sess' = [sess EXCEPT ![p] = IF outcome = "raise" THEN NoSess
                                   ELSE [NoSess EXCEPT !.delivery = outcome]]
    /\ resp' = IF outcome = "raise"
               THEN Response("forgot", 500, "Internal Server Error") ELSE NoResp
    /\ req' = req
    /\ UNCHANGED <<now, users, tokens, pwBy, useBy, served>>

\* try: await send_password_reset_email(user.email, reset_link) except: print
ForgotSend(p, outcome) ==
    /\ pc[p] = "forgot_send"
    /\ mail' = [to |-> users[sess[p].user].email, token |-> tokens[sess[p].tok].token]
    /\ pc' = [pc EXCEPT ![p] = "forgot_return"]
    /\ sess' = [sess EXCEPT ![p] = [NoSess EXCEPT !.delivery = outcome]]
    /\ resp' = NoResp
    /\ req' = req
    /\ UNCHANGED <<now, users, tokens, pwBy, useBy, served>>

ForgotReturn(p) ==
    /\ pc[p] = "forgot_return"
    /\ Return(p, Response("forgot", 200, MsgAccepted))
    /\ UNCHANGED <<now, users, tokens, pwBy, useBy, served>>

\* -------------------------------------------------------- validate-token
\* the response of validate_token on the committed rows
ValidateResult(token) ==
    LET reset_token == TokenByValue(token) IN
    IF reset_token = 0
    THEN Response("validate", 200, MsgNotFound)
    ELSE IF tokens[reset_token].used_at # Null
    THEN Response("validate", 200, MsgUsed)
    ELSE IF is_token_expired(tokens[reset_token].expires_at)
    THEN Response("validate", 200, MsgExpired)
    ELSE LET user == UserById(tokens[reset_token].user_id) IN
         [Response("validate", 200, MsgValid) EXCEPT
             !.valid = TRUE,
             !.email = IF user # 0 THEN users[user].email ELSE ""]

\* mutant: a valid token is marked used by the probe
Validate_Consuming(p, token) ==
    /\ Admit(p)
    /\ Return(p, ValidateResult(token))
    /\ tokens' = [i \in 1..Len(tokens) |->
                     IF tokens[i].token = token /\ ValidateResult(token).valid
                     THEN [tokens[i] EXCEPT !.used_at = now] ELSE tokens[i]]
    /\ UNCHANGED <<now, users, pwBy, useBy>>

\* both queries read rows no handler deletes or re-keys, so they are one step;
\* the handler writes nothing and never commits
Validate(p, token) ==
    /\ Admit(p)
    /\ Return(p, ValidateResult(token))
    /\ UNCHANGED <<now, users, tokens, pwBy, useBy>>

\* -------------------------------------------------------- reset-password
\* mutant: the used_at check is missing
ResetChecks_NoUsedCheck(token) ==
    LET reset_token == TokenByValue(token) IN
    IF reset_token = 0
    THEN Response("reset", 400, MsgNotFound)
    ELSE IF is_token_expired(tokens[reset_token].expires_at)
    THEN Response("reset", 400, MsgExpired)
    ELSE IF UserById(tokens[reset_token].user_id) = 0
    THEN Response("reset", 404, MsgNoUser)
    ELSE NoResp

\* the HTTPException reset_password raises before it writes, NoResp when none
ResetChecks(token) ==
    LET reset_token == TokenByValue(token) IN
    IF reset_token = 0
    THEN Response("reset", 400, MsgNotFound)
    ELSE IF tokens[reset_token].used_at # Null
    THEN Response("reset", 400, MsgUsed)
    ELSE IF is_token_expired(tokens[reset_token].expires_at)
    THEN Response("reset", 400, MsgExpired)
    ELSE IF UserById(tokens[reset_token].user_id) = 0
    THEN Response("reset", 404, MsgNoUser)
    ELSE NoResp

\* mutant: a token refused as expired is marked used on the way out
ResetFind_MarksExpired(p, token, new_password) ==
    /\ Admit(p)
    /\ IF ResetChecks(token) # NoResp
       THEN /\ Return(p, ResetChecks(token))
            /\ tokens' = [i \in 1..Len(tokens) |->
                             IF tokens[i].token = token /\ tokens[i].used_at = Null
                             THEN [tokens[i] EXCEPT !.used_at = now] ELSE tokens[i]]
       ELSE /\ Goto(p, "reset_commit",
                    [NoReq EXCEPT !.token = token, !.password = new_password],
                    [NoSess EXCEPT !.tok = TokenByValue(token),
                                   !.user = UserById(tokens[TokenByValue(token)].user_id)])
            /\ tokens' = tokens
    /\ UNCHANGED <<now, users, pwBy, useBy>>

\* the token query, its three checks and the user query
ResetFind(p, token, new_password) ==
    /\ Admit(p)
    /\ IF ResetChecks(token) # NoResp
       THEN Return(p, ResetChecks(token))
       ELSE Goto(p, "reset_commit",
                 [NoReq EXCEPT !.token = token, !.password = new_password],
                 [NoSess EXCEPT !.tok = TokenByValue(token),
                                !.user = UserById(tokens[TokenByValue(token)].user_id)])
    /\ UNCHANGED <<now, users, tokens, pwBy, useBy>>

\* mutant: the password UPDATE has no WHERE clause
ResetCommit_EveryUser(p, salt) ==
    /\ pc[p] = "reset_commit"
    /\ sess[p].tok \notin LockedByOthers(p)
    /\ users' = [u \in 1..Len(users) |->
                    [users[u] EXCEPT !.hashed_password = hash_password(req[p].password, salt)]]
    /\ tokens' = [tokens EXCEPT ![sess[p].tok].used_at = now]
    /\ pwBy' = [pwBy EXCEPT ![sess[p].tok] = @ + 1]
    /\ useBy' = [useBy EXCEPT ![sess[p].tok] = @ + 1]
    /\ Return(p, Response("reset", 200, MsgReset))
    /\ UNCHANGED <<now, served>>

\* mutant: the digest is computed without the salt the hash records
ResetCommit_Unsalted(p, salt) ==
    /\ pc[p] = "reset_commit"
    /\ sess[p].tok \notin LockedByOthers(p)
    /\ users' = [users EXCEPT ![sess[p].user].hashed_password =
                                 [salt |-> salt, digest |-> <<"", req[p].password>>]]
    /\ tokens' = [tokens EXCEPT ![sess[p].tok].used_at = now]
    /\ pwBy' = [pwBy EXCEPT ![sess[p].tok] = @ + 1]
    /\ useBy' = [useBy EXCEPT ![sess[p].tok] = @ + 1]
    /\ Return(p, Response("reset", 200, MsgReset))
    /\ UNCHANGED <<now, served>>

\* mutant: the password is committed on its own and the handler dies before
\* it marks the token
ResetCommit_PasswordOnly(p, salt) ==
    /\ pc[p] = "reset_commit"
    /\ users' = [users EXCEPT ![sess[p].user].hashed_password =
                                 hash_password(req[p].password, salt)]
    /\ pwBy' = [pwBy EXCEPT ![sess[p].tok] = @ + 1]
    /\ Return(p, NoResp)
    /\ UNCHANGED <<now, tokens, useBy, served>>

\* user.hashed_password = hash_password(...); reset_token.used_at = utcnow();
\* db.commit(): both UPDATEs (by primary key) are flushed and committed in one
\* transaction; the token row's UPDATE waits for a lock another handler holds
ResetCommit(p, salt) ==
    /\ pc[p] = "reset_commit"
    /\ sess[p].tok \notin LockedByOthers(p)
    /\ users' = [users EXCEPT ![sess[p].user].hashed_password =
                                 hash_password(req[p].password, salt)]
    /\ tokens' = [tokens EXCEPT ![sess[p].tok].used_at = now]
    /\ pwBy' = [pwBy EXCEPT ![sess[p].tok] = @ + 1]
    /\ useBy' = [useBy EXCEPT ![sess[p].tok] = @ + 1]
    /\ Return(p, Response("reset", 200, MsgReset))
    /\ UNCHANGED <<now, served>>

\* ------------------------------------------------------------ environment
\* the handler dies before its next statement: the session rolls back whatever
\* it has not committed and no response is produced
Abort(p) ==
    /\ pc[p] # "idle"
    /\ Return(p, NoResp)
    /\ UNCHANGED <<now, users, tokens, pwBy, useBy, served>>

\* users.is_active is a column no endpoint writes: an operator changes it in
\* the database
SetActive(u, active) ==
    /\ u \in 1..Len(users)
    /\ users[u].is_active # active
    /\ users' = [users EXCEPT ![u].is_active = active]
    /\ resp' = NoResp
    /\ mail' = NoMail
    /\ UNCHANGED <<now, tokens, pc, req, sess, pwBy, useBy, served>>

Tick ==
    /\ now + Quantum <= MaxTime
    /\ now' = now + Quantum
    /\ resp' = NoResp
    /\ mail' = NoMail
    /\ UNCHANGED <<users, tokens, pc, req, sess, pwBy, useBy, served>>

Next ==
    \/ \E p \in Procs, email \in Emails, password \in Passwords : RegisterCheck(p, email, password)
    \/ \E p \in Procs, salt \in Salts : RegisterInsert(p, salt)
    \/ \E p \in Procs, email \in Emails, password \in Passwords : Login(p, email, password)
    \/ \E p \in Procs, email \in Emails : ForgotInvalidate(p, email)
    \/ \E p \in Procs : ForgotUnblock(p)
    \/ \E p \in Procs : ForgotInsert(p)
    \/ \E p \in Procs, outcome \in EmailOutcomes : ForgotSend(p, outcome)
    \/ \E p \in Procs : ForgotReturn(p)
    \/ \E p \in Procs, token \in TokenInputs : Validate(p, token)
    \/ \E p \in Procs, token \in TokenInputs, password \in Passwords : ResetFind(p, token, password)
    \/ \E p \in Procs, salt \in Salts : ResetCommit(p, salt)
    \/ \E p \in Procs : Abort(p)
    \/ Tick

\* parallel request handlers
Spec == Init /\ [][Next]_vars

\* no other handler is running
Alone(p) == \A q \in Procs \ {p} : pc[q] = "idle"

SeqNext ==
    \/ \E p \in Procs, email \in Emails, password \in Passwords :
          Alone(p) /\ RegisterCheck(p, email, password)
    \/ \E p \in Procs, salt \in Salts : Alone(p) /\ RegisterInsert(p, salt)
    \/ \E p \in Procs, email \in Emails, password \in Passwords :
          Alone(p) /\ Login(p, email, password)
    \/ \E p \in Procs, email \in Emails : Alone(p) /\ ForgotInvalidate(p, email)
    \/ \E p \in Procs : Alone(p) /\ ForgotInsert(p)
    \/ \E p \in Procs, outcome \in EmailOutcomes : Alone(p) /\ ForgotSend(p, outcome)
    \/ \E p \in Procs : Alone(p) /\ ForgotReturn(p)
    \/ \E p \in Procs, token \in TokenInputs : Alone(p) /\ Validate(p, token)
    \/ \E p \in Procs, token \in TokenInputs, password \in Passwords :
          Alone(p) /\ ResetFind(p, token, password)
    \/ \E p \in Procs, salt \in Salts : Alone(p) /\ ResetCommit(p, salt)
    \/ \E p \in Procs : Alone(p) /\ Abort(p)
    \/ Tick

\* one request at a time: a handler runs only while no other is running
SeqSpec == Init /\ [][SeqNext]_vars

ActiveNext ==
    \/ \E p \in Procs, email \in Emails, password \in Passwords :
          Alone(p) /\ RegisterCheck(p, email, password)
    \/ \E p \in Procs, salt \in Salts : Alone(p) /\ RegisterInsert(p, salt)
    \/ \E p \in Procs, email \in Emails, password \in Passwords :
          Alone(p) /\ Login(p, email, password)
    \/ \E p \in Procs, email \in Emails : Alone(p) /\ ForgotInvalidate(p, email)
    \/ \E p \in Procs : Alone(p) /\ ForgotInsert(p)
    \/ \E p \in Procs, outcome \in EmailOutcomes : Alone(p) /\ ForgotSend(p, outcome)
    \/ \E p \in Procs : Alone(p) /\ ForgotReturn(p)
    \/ \E p \in Procs, token \in TokenInputs : Alone(p) /\ Validate(p, token)
    \/ \E p \in Procs, token \in TokenInputs, password \in Passwords :
          Alone(p) /\ ResetFind(p, token, password)
    \/ \E p \in Procs, salt \in Salts : Alone(p) /\ ResetCommit(p, salt)
    \/ \E p \in Procs : Alone(p) /\ Abort(p)
    \/ \E u \in 1..MaxRequests, active \in BOOLEAN : SetActive(u, active)
    \/ Tick

\* one request at a time, with an operator who deactivates and reactivates
\* accounts in the database
ActiveSpec == Init /\ [][ActiveNext]_vars

\* ================================================================ claims
Users == 1..Len(users)
Tokens == 1..Len(tokens)

\* every handler is past its commit (or has not started)
AllCommitted == \A p \in Procs : pc[p] \in {"idle", "forgot_send", "forgot_return"}

\* C1: of the resetPassword requests that run concurrently with one unused,
\* unexpired token, exactly one succeeds: no token is consumed by more than one
\* successful reset.
C1_OneResetPerToken == \A t \in 1..MaxTokens : useBy[t] <= 1

\* C2: once concurrent forgotPassword requests for one user have all committed,
\* at most one token of that user has used_at NULL.
C2_OneUnusedAfterForgots ==
    AllCommitted => \A u \in Users : Cardinality(UnusedOf(u)) <= 1

\* C3: with one request at a time every user has at most one unused token, an
\* unused token is the latest one issued to its user, and right after a
\* forgotPassword commit the only unused token of the user is the new one.
C3_SeqSingleUnused ==
    /\ \A u \in Users : Cardinality(UnusedOf(u)) <= 1
    /\ \A u \in Users : \A t \in UnusedOf(u) :
          \A t2 \in Tokens : tokens[t2].user_id = u => t2 <= t
    /\ \A p \in Procs :
          pc[p] = "forgot_send" => UnusedOf(sess[p].user) = {sess[p].tok}

\* forgotPassword has run twice in succession for one user: the first token is
\* superseded and the second was just issued
C3_Witness ==
    \E p \in Procs :
        /\ pc[p] = "forgot_send"
        /\ sess[p].tok = 2
        /\ tokens[1].user_id = tokens[2].user_id
        /\ tokens[1].used_at # Null
        /\ useBy[1] = 0
        /\ tokens[2].used_at = Null

\* C5: the two mutations of resetPassword are committed together: a reset
\* carrying token t has overwritten the password exactly as often as it has set
\* t.used_at, and a token whose reset changed the password is never unused.
C5_ResetAtomic ==
    \A t \in 1..MaxTokens :
        /\ pwBy[t] = useBy[t]
        /\ pwBy[t] > 0 => t \in Tokens /\ tokens[t].used_at # Null

\* a reset has committed while another handler, past its checks with the same
\* token, has not committed yet
C5_Witness ==
    \E t \in Tokens :
        /\ pwBy[t] = 1
        /\ useBy[t] = 1
        /\ tokens[t].used_at # Null
        /\ verify_password("newpass123", users[tokens[t].user_id].hashed_password)
        /\ \E p \in Procs : pc[p] = "reset_commit" /\ sess[p].tok = t

\* the token value is stored / its row / it is unused and not past its expiry
Stored(token) == \E i \in Tokens : tokens[i].token = token
Row(token) == CHOOSE i \in Tokens : tokens[i].token = token
ValidNow(token) ==
    \E i \in Tokens :
        tokens[i].token = token /\ tokens[i].used_at = Null /\ now <= tokens[i].expires_at

\* the step is the first one of a validate_token / of a reset_password request
\* (told by what it leaves behind, before the whole action is compared)
ValidateStep(p) == pc[p] = "idle" /\ resp'.op = "validate"
ResetStep(p) == pc[p] = "idle" /\ (resp'.op = "reset" \/ pc'[p] = "reset_commit")

\* C4: with one request at a time a token is single-use: a resetPassword with an
\* unused, unexpired token passes the checks and its commit succeeds, a later
\* resetPassword with the token a reset has consumed fails with "already used"
\* whatever password it carries and changes nothing, and no token is consumed
\* by two resets.
C4_SingleUse ==
    [][/\ \A t \in 1..MaxTokens : useBy'[t] <= 1
       /\ \A p \in Procs :
             ResetStep(p) =>
                \A token \in TokenInputs, password \in Passwords :
                   ResetFind(p, token, password) =>
                      /\ ValidNow(token) => pc'[p] = "reset_commit"
                      /\ (Stored(token) /\ useBy[Row(token)] > 0) =>
                            /\ resp' = Response("reset", 400, MsgUsed)
                            /\ pc'[p] = "idle"
                            /\ users' = users
                            /\ tokens' = tokens
       /\ \A p \in Procs, salt \in Salts :
             ResetCommit(p, salt) =>
                /\ resp' = Response("reset", 200, MsgReset)
                /\ tokens'[sess[p].tok].used_at # Null
                /\ verify_password(req[p].password, users'[sess[p].user].hashed_password)
      ]_vars

\* the only token has been consumed by one reset and a second reset with it was
\* just refused
C4_Witness ==
    /\ resp = Response("reset", 400, MsgUsed)
    /\ Len(tokens) = 1
    /\ useBy[1] = 1

\* a stored token whose expires_at is earlier than the current time
PastExpiry(token) == Stored(token) /\ tokens[Row(token)].expires_at < now

\* C6 as claimed: a stored token past its expiry gets the expiry message from
\* validateToken and resetPassword whatever its other fields are, used_at included.
C6_ExpiredWhateverUsed ==
    [][\A p \in Procs :
          /\ ValidateStep(p) =>
                \A token \in TokenInputs :
                   (PastExpiry(token) /\ Validate(p, token)) =>
                      resp' = Response("validate", 200, MsgExpired)
          /\ ResetStep(p) =>
                \A token \in TokenInputs, password \in Passwords :
                   (PastExpiry(token) /\ ResetFind(p, token, password)) =>
                      resp' = Response("reset", 400, MsgExpired)
      ]_vars

\* C6 amended: a stored token past its expiry whose used_at is NULL gets the
\* expiry message from validateToken and resetPassword; when its used_at is set
\* both answer "already used" instead.
C6_ExpiredUnused ==
    [][\A p \in Procs :
          /\ ValidateStep(p) =>
                \A token \in TokenInputs :
                   (PastExpiry(token) /\ Validate(p, token)) =>
                      resp' = Response("validate", 200,
                                       IF tokens[Row(token)].used_at # Null
                                       THEN MsgUsed ELSE MsgExpired)
          /\ ResetStep(p) =>
                \A token \in TokenInputs, password \in Passwords :
                   (PastExpiry(token) /\ ResetFind(p, token, password)) =>
                      /\ resp' = Response("reset", 400,
                                          IF tokens[Row(token)].used_at # Null
                                          THEN MsgUsed ELSE MsgExpired)
                      /\ pc'[p] = "idle"
      ]_vars

\* a reset with the only token, unused and past its expiry, was just refused
C6_Witness ==
    /\ resp = Response("reset", 400, MsgExpired)
    /\ Len(tokens) = 1
    /\ tokens[1].used_at = Null
    /\ tokens[1].expires_at < now

\* C7: validateToken answers valid:true exactly for a stored token with used_at
\* NULL and now <= expires_at, then with the owner's email; and resetPassword
\* passes its checks in exactly the same states, its commit then succeeding.
C7_ValidIff ==
    [][\A p \in Procs :
          /\ ValidateStep(p) =>
                \A token \in TokenInputs :
                   Validate(p, token) =>
                      /\ resp'.valid <=> ValidNow(token)
                      /\ resp'.valid =>
                            resp' = [op |-> "validate", status |-> 200,
                                     message |-> MsgValid, valid |-> TRUE,
                                     email |-> users[tokens[Row(token)].user_id].email]
          /\ ResetStep(p) =>
                \A token \in TokenInputs, password \in Passwords :
                   ResetFind(p, token, password) =>
                      (pc'[p] = "reset_commit" <=> ValidNow(token))
          /\ \A salt \in Salts :
                ResetCommit(p, salt) => resp' = Response("reset", 200, MsgReset)
      ]_vars

\* the only token was just found valid at the very instant of its expiry
C7_Witness ==
    /\ resp.valid
    /\ Len(tokens) = 1
    /\ tokens[1].expires_at = now

\* C8: every forgotPassword response is the one accepted message with status
\* 200; for an email no user has, the call returns it at once and leaves users,
\* tokens as they were and hands no link to the email sender.
C8_AntiEnumeration ==
    [][/\ resp'.op = "forgot" => resp' = Response("forgot", 200, MsgAccepted)
       /\ \A p \in Procs, email \in Emails :
             ((~\E u \in Users : users[u].email = email) /\ pc[p] = "idle"
                 /\ resp'.op = "forgot" /\ ForgotInvalidate(p, email)) =>
                /\ resp' = Response("forgot", 200, MsgAccepted)
                /\ pc'[p] = "idle"
                /\ users' = users
                /\ tokens' = tokens
                /\ mail' = NoMail
       /\ \A p \in Procs : ForgotReturn(p) => resp' = Response("forgot", 200, MsgAccepted)
      ]_vars

\* a forgotPassword for an unregistered email was just answered while another
\* email is registered: no token exists and nothing was sent
C8_Witness ==
    /\ resp = Response("forgot", 200, MsgAccepted)
    /\ Len(users) = 1
    /\ tokens = <<>>
    /\ mail = NoMail

\* C9: whatever the outcome of the send (sent, false, raised) the handler goes
\* on to return the accepted response; neither step touches users or tokens, so
\* a token resetPassword would accept before the send is accepted after it.
C9_EmailFailureSwallowed ==
    [][\A p \in Procs :
          /\ \A outcome \in EmailOutcomes :
                ForgotSend(p, outcome) =>
                   /\ pc'[p] = "forgot_return"
                   /\ resp' = NoResp
                   /\ users' = users
                   /\ tokens' = tokens
                   /\ \A t \in TokenInputs :
                         (t = tokens[sess[p].tok].token /\ ValidNow(t)) =>
                            ResetChecks(t)' = NoResp
          /\ ForgotReturn(p) =>
                /\ resp' = Response("forgot", 200, MsgAccepted)
                /\ users' = users
                /\ tokens' = tokens
      ]_vars

\* the send has failed and the token just issued is still unused in the store
C9_Witness ==
    \E p \in Procs :
        /\ pc[p] = "forgot_return"
        /\ sess[p].delivery \in {"false", "raise"}
        /\ Len(tokens) = 1
        /\ ValidNow(tokens[1].token)

\* C10: validateToken changes no user and no token for any token value, so a
\* token resetPassword would accept before the call is accepted after it.
C10_ValidateReadOnly ==
    [][\A p \in Procs :
          ValidateStep(p) =>
             \A token \in TokenInputs :
                Validate(p, token) =>
                   /\ users' = users
                   /\ tokens' = tokens
                   /\ mail' = NoMail
                   /\ \A t \in TokenInputs : ValidNow(t) => ResetChecks(t)' = NoResp
      ]_vars

\* a valid token was just probed and is still unused
C10_Witness ==
    /\ resp.valid
    /\ Len(tokens) = 1
    /\ tokens[1].used_at = Null

\* the step is a login request
LoginStep(p) == pc[p] = "idle" /\ resp'.op = "login"

\* C11: login answers 401 with the one message when no user has the email and
\* when the password does not verify, whether the user is active or not; it
\* answers 403 exactly when the user exists, the password verifies and is_active
\* is false; and it changes no user and no token.
C11_LoginErrors ==
    [][\A p \in Procs :
          LoginStep(p) =>
             \A email \in Emails, password \in Passwords :
                Login(p, email, password) =>
                   LET known == \E u \in Users : users[u].email = email
                       good == known /\ verify_password(password,
                                          users[UserByEmail(email)].hashed_password)
                   IN
                   /\ (~known \/ ~good) => resp' = Response("login", 401, MsgBadLogin)
                   /\ resp'.status = 403 <=> (good /\ ~users[UserByEmail(email)].is_active)
                   /\ resp'.status = 403 => resp' = Response("login", 403, MsgInactive)
                   /\ resp'.status \in {200, 401, 403}
                   /\ users' = users
                   /\ tokens' = tokens
                   /\ pc'[p] = "idle"
      ]_vars

\* both emails are registered, both accounts are inactive, and a login was just
\* refused with the credentials error: its password did not verify
C11_Witness ==
    /\ resp = Response("login", 401, MsgBadLogin)
    /\ Len(users) = 2
    /\ \A u \in Users : ~users[u].is_active

\* the step is the first one of a register request
RegisterStep(p) == pc[p] = "idle" /\ (resp'.op = "register" \/ pc'[p] = "register_insert")

\* C12: a register call that starts when a user already has the email is
\* answered 400 "Email already registered" at once, whatever the password, and
\* leaves every user row as it was and creates no user.
C12_DuplicateEmail ==
    [][\A p \in Procs :
          RegisterStep(p) =>
             \A email \in Emails, password \in Passwords :
                ((\E u \in Users : users[u].email = email)
                    /\ RegisterCheck(p, email, password)) =>
                   /\ resp' = Response("register", 400, MsgDuplicate)
                   /\ pc'[p] = "idle"
                   /\ users' = users
                   /\ tokens' = tokens
      ]_vars

\* a second registration was just refused and the store still holds the one
\* user, whose password a reset has changed in between
C12_Witness ==
    /\ resp = Response("register", 400, MsgDuplicate)
    /\ Len(users) = 1
    /\ verify_password("newpass123", users[1].hashed_password)
    /\ pwBy[1] = 1

\* C13: in the state a successful resetPassword(token, new_password) leaves,
\* login with the user's email and new_password succeeds, login with any
\* password other than new_password (the previous one included) gets the
\* credentials error, and validateToken on the token answers valid:false with
\* "This reset link has already been used".
C13_AfterReset ==
    [][\A p \in Procs, salt \in Salts :
          ResetCommit(p, salt) =>
             \A email \in Emails, new \in Passwords, token \in TokenInputs :
                (email = users[sess[p].user].email /\ new = req[p].password
                    /\ token = req[p].token) =>
                   /\ resp' = Response("reset", 200, MsgReset)
                   /\ LoginResult(email, new)' =
                         [Response("login", 200, MsgLogin) EXCEPT !.email = email]
                   /\ \A old \in Passwords \ {new} :
                         LoginResult(email, old)' = Response("login", 401, MsgBadLogin)
                   /\ ValidateResult(token)' = Response("validate", 200, MsgUsed)
      ]_vars

\* a reset has just committed newpass123 as the password of the only user
C13_Witness ==
    /\ resp = Response("reset", 200, MsgReset)
    /\ Len(users) = 1
    /\ pwBy[1] = 1
    /\ verify_password("newpass123", users[1].hashed_password)
    /\ ~verify_password("password123", users[1].hashed_password)

\* C14: token rows are append-only and used_at is written at most once: no step
\* removes a row or changes a row's token, user_id or expires_at, and a used_at
\* that is set keeps its value in every later state.
C14_AppendOnly ==
    [][/\ Len(tokens') >= Len(tokens)
       /\ \A i \in Tokens :
             /\ tokens'[i].token = tokens[i].token
             /\ tokens'[i].user_id = tokens[i].user_id
             /\ tokens'[i].expires_at = tokens[i].expires_at
             /\ tokens[i].used_at # Null => tokens'[i].used_at = tokens[i].used_at
      ]_vars

\* C15: when a forgotPassword call commits, every token its user had when the
\* call came in has used_at set, so resetPassword refuses each of them with
\* "already used" from then on and changes nothing; the token the call issues is
\* unused and expires TOKEN_EXPIRATION_MINUTES after the commit; the commit
\* changes no token of another user and no user row.
C15_Supersede ==
    [][/\ \A i \in Tokens : tokens[i].used_at # Null => tokens'[i].used_at # Null
       /\ \A p \in Procs :
             ForgotInsert(p) =>
                /\ \A i \in 1..sess[p].seen :
                      tokens[i].user_id = sess[p].user => tokens'[i].used_at # Null
                /\ \A t \in TokenInputs :
                      (Stored(t) /\ Row(t) <= sess[p].seen
                          /\ tokens[Row(t)].user_id = sess[p].user) =>
                         ResetChecks(t)' = Response("reset", 400, MsgUsed)
                /\ Len(tokens') = Len(tokens) + 1
                /\ tokens'[Len(tokens) + 1].user_id = sess[p].user
                /\ tokens'[Len(tokens) + 1].used_at = Null
                /\ tokens'[Len(tokens) + 1].expires_at = now + TOKEN_EXPIRATION_MINUTES
                /\ \A i \in Tokens : tokens[i].token # tokens'[Len(tokens) + 1].token
                /\ \A i \in Tokens :
                      tokens[i].user_id # sess[p].user => tokens'[i] = tokens[i]
                /\ users' = users
       /\ \A p \in Procs :
             ResetStep(p) =>
                \A token \in TokenInputs, password \in Passwords :
                   (Stored(token) /\ tokens[Row(token)].used_at # Null
                       /\ ResetFind(p, token, password)) =>
                      /\ resp' = Response("reset", 400, MsgUsed)
                      /\ pc'[p] = "idle"
                      /\ users' = users
                      /\ tokens' = tokens
      ]_vars

\* a second forgotPassword of the user has just committed half an hour after the
\* first: the first token carries the time of the call and the new one expires
\* half an hour from now
C15_Witness ==
    \E p \in Procs :
        /\ pc[p] = "forgot_send"
        /\ sess[p].tok = 2
        /\ now = TOKEN_EXPIRATION_MINUTES
        /\ tokens[1].user_id = tokens[2].user_id
        /\ tokens[1].used_at = now
        /\ useBy[1] = 0
        /\ tokens[2].used_at = Null
        /\ tokens[2].expires_at = now + TOKEN_EXPIRATION_MINUTES

\* C16: the forgotPassword response does not wait for the email: a handler that
\* has committed its token and whose delivery attempt has not completed can
\* return the accepted response.
C16_ResponseBeforeDelivery ==
    \A p \in Procs : pc[p] = "forgot_send" => ENABLED ForgotReturn(p)

\* C17: a resetPassword call that fails (token not found, already used,
\* expired, user not found, or the handler dying before its commit) changes no
\* user row and no token row.
C17_FailedResetNoChange ==
    [][\A p \in Procs :
          /\ ResetStep(p) =>
                \A token \in TokenInputs, password \in Passwords :
                   (ResetFind(p, token, password) /\ resp'.op = "reset") =>
                      /\ resp' \in {Response("reset", 400, MsgNotFound),
                                   Response("reset", 400, MsgUsed),
                                   Response("reset", 400, MsgExpired),
                                   Response("reset", 404, MsgNoUser)}
                      /\ pc'[p] = "idle"
                      /\ users' = users
                      /\ tokens' = tokens
                      /\ pwBy' = pwBy
                      /\ useBy' = useBy
          /\ (pc[p] = "reset_commit" /\ Abort(p)) =>
                /\ users' = users
                /\ tokens' = tokens
      ]_vars

\* a reset with a value no token has was just refused: the one token is still
\* unused and the password is the registered one
C17_Witness ==
    /\ resp = Response("reset", 400, MsgNotFound)
    /\ Len(tokens) = 1
    /\ tokens[1].used_at = Null
    /\ pwBy[1] = 0
    /\ verify_password("password123", users[1].hashed_password)

\* C18: a reset never succeeds with a token a committed forgotPassword has
\* superseded: when a reset commits with a token no other reset has consumed,
\* the token's used_at is still NULL in the committed rows.
C18_NoResetAfterSupersede ==
    [][\A p \in Procs, salt \in Salts :
          (ResetCommit(p, salt) /\ useBy[sess[p].tok] = 0) =>
             tokens[sess[p].tok].used_at = Null
      ]_vars

\* C19: no step removes a user, and a step that changes the hashed_password of
\* an existing user is the commit of a resetPassword that returns 200 and whose
\* token belongs to that user: register, login, forgotPassword, validateToken,
\* failing resets and resets with another user's token change no password.
C19_PasswordOnlyByReset ==
    [][/\ Len(users') >= Len(users)
       /\ \A u \in Users :
             users'[u].hashed_password # users[u].hashed_password =>
                \E p \in Procs, salt \in Salts :
                   /\ ResetCommit(p, salt)
                   /\ tokens[sess[p].tok].user_id = u
                   /\ resp' = Response("reset", 200, MsgReset)
      ]_vars

\* two users are registered and a reset with the token of one of them has just
\* changed that user's password: the other user still has the registered one
C19_Witness ==
    /\ resp = Response("reset", 200, MsgReset)
    /\ Len(users) = 2
    /\ Len(tokens) = 1
    /\ pwBy[1] = 1
    /\ verify_password("newpass123", users[tokens[1].user_id].hashed_password)
    /\ \A u \in Users \ {tokens[1].user_id} :
          verify_password("password123", users[u].hashed_password)

\* C20: no two users have the same email, in every state and whatever the
\* interleaving of register calls; a register call that returns the created
\* user (201) has added exactly the row of its email, which no user had, so at
\* most one of the calls racing for an email returns it.
C20_EmailUnique ==
    [][/\ \A u1, u2 \in 1..Len(users') :
             users'[u1].email = users'[u2].email => u1 = u2
       /\ (resp'.op = "register" /\ resp'.status = 201) =>
             /\ Len(users') = Len(users) + 1
             /\ users'[Len(users')].email = resp'.email
             /\ \A u \in Users : users'[u] = users[u] /\ users[u].email # resp'.email
       /\ Len(users') > Len(users) => (resp'.op = "register" /\ resp'.status = 201)
      ]_vars

\* two register calls have raced for one email: the loser's insert was just
\* refused by the unique index and one user holds the email
C20_Witness ==
    /\ resp = Response("register", 500, MsgServerError)
    /\ Len(users) = 1

====
